---------------------------- MODULE Spec2Model ----------------------------
(***************************************************************************)
(* A model of src/main.cpp: a terminal weather client with a list of at    *)
(* most three favorite cities.                                             *)
(*                                                                         *)
(* Text is modelled as a sequence of byte values (0..255), so that the     *)
(* sanitizer, the digit check and std::stoi work on what the code sees.    *)
(* A JSON document is a record tagged by its type in field t.              *)
(***************************************************************************)
EXTENDS Integers, Sequences, FiniteSets, TLC

VARIABLES
    favorites,  \* main: std::vector<city> favorites
    exit_flag,  \* main: bool exit_flag
    pc,         \* main's position: "menu", "done" (returned 0), "terminated"
    choice,     \* main_screen: the line read at the menu prompt
    lastIn,     \* the line the handler then read at its own prompt
    lastMsg,    \* the line the handler printed as its outcome
    lastErr,    \* the exception it caught and printed, or that escaped it
    prevFav,    \* favorites when main_screen was entered
    shown,      \* the label: value lines the handler printed, in order
    geoResp,    \* add_favorite: the exchange its geocoding request met
    fnIn,       \* argument of the function under study
    fnOut,      \* its result
    fnPc        \* "ready" before the call, the function's name after it

vars == <<favorites, exit_flag, pc, choice, lastIn, lastMsg, lastErr,
          prevFav, shown, geoResp, fnIn, fnOut, fnPc>>

(***************************************************************************)
(* Bounds of the model.                                                    *)
(***************************************************************************)
MaxLen == 3        \* longest text handed to url_encode / trim
MaxChoiceLen == 2  \* longest short line typed at the delete prompt

(***************************************************************************)
(* Bytes.  char is signed on the usual targets, so a byte of 128 or more   *)
(* reaches the <cctype> functions as a negative int: outside their domain  *)
(* (unsigned char values and EOF), which is undefined behaviour.  Such a   *)
(* call's answer is a parameter ub, a function from HighBytes to BOOLEAN,  *)
(* chosen freely by the action that makes the call.                        *)
(***************************************************************************)
HighBytes == {233}

UbChoices == [HighBytes -> BOOLEAN]

Digits == 48..57

isdigit(c, ub) == IF c \in HighBytes THEN ub[c] ELSE c \in Digits

isalnum(c, ub) ==
    IF c \in HighBytes THEN ub[c]
    ELSE c \in Digits \/ c \in 65..90 \/ c \in 97..122

isspace(c) == c \in 9..13 \/ c = 32

\* The sentinel every prompt compares its line with: "-1".
Cancel == <<45, 49>>

SeqsUpTo(S, n) == UNION {[1..k -> S] : k \in 0..n}

(***************************************************************************)
(* String sanitizer methods.                                               *)
(***************************************************************************)
TrimSet == {32, 9}   \* " \t"

\* std::string::find_first_not_of(" \t"); 0 stands for npos.
find_first_not_of(input) ==
    LET I == {i \in 1..Len(input) : input[i] \notin TrimSet}
    IN  IF I = {} THEN 0 ELSE CHOOSE i \in I : \A j \in I : i <= j

\* std::string::find_last_not_of(" \t"); 0 stands for npos.
find_last_not_of(input) ==
    LET I == {i \in 1..Len(input) : input[i] \notin TrimSet}
    IN  IF I = {} THEN 0 ELSE CHOOSE i \in I : \A j \in I : i >= j

trim(input) ==
    LET first == find_first_not_of(input)
        last == find_last_not_of(input)
    IN  IF first = 0 \/ last = 0 THEN <<>>
        ELSE SubSeq(input, first, last)

\* One digit of snprintf's %02X.
HexDigit(n) == IF n < 10 THEN 48 + n ELSE 55 + n

\* snprintf(buffer, 4, "%%%02X", (unsigned char) c)
PercentXX(c) == <<37, HexDigit(c \div 16), HexDigit(c % 16)>>

SafePunct == {45, 95, 46, 126}   \* '-' '_' '.' '~'

RECURSIVE url_encode(_, _)
url_encode(input, ub) ==
    IF input = <<>> THEN <<>>
    ELSE LET c == Head(input)
         IN  (IF isalnum(c, ub) \/ c \in SafePunct THEN <<c>> ELSE PercentXX(c))
             \o url_encode(Tail(input), ub)

sanitize_and_encode(input, ub) == url_encode(trim(input), ub)

is_numeric(str, ub) == \A i \in 1..Len(str) : isdigit(str[i], ub)

(***************************************************************************)
(* std::stoi(str): strtol in base 10, then the range check for int.        *)
(* Leading white space is skipped, one sign is taken, the longest run of   *)
(* digits is converted and what follows is ignored.  No digit at all       *)
(* throws std::invalid_argument, a value outside int std::out_of_range.    *)
(* The range is decided on the digits, as the value itself may not fit.    *)
(***************************************************************************)
\* The digits of INT_MAX, 2147483647; -INT_MIN ends in 8.
IntMaxDigits == <<50, 49, 52, 55, 52, 56, 51, 54, 52, 55>>

RECURSIVE SkipSpace(_)
SkipSpace(s) ==
    IF s # <<>> /\ isspace(Head(s)) THEN SkipSpace(Tail(s)) ELSE s

RECURSIVE DigitRun(_)
DigitRun(s) ==
    IF s # <<>> /\ Head(s) \in Digits THEN <<Head(s)>> \o DigitRun(Tail(s))
    ELSE <<>>

RECURSIVE SkipZeros(_)
SkipZeros(ds) ==
    IF ds # <<>> /\ Head(ds) = 48 THEN SkipZeros(Tail(ds)) ELSE ds

\* Whether the numeral ds, without leading zeros, exceeds the numeral limit.
NumeralExceeds(ds, limit) ==
    \/ Len(ds) > Len(limit)
    \/ /\ Len(ds) = Len(limit)
       /\ \E i \in 1..Len(ds) :
             /\ \A j \in 1..(i - 1) : ds[j] = limit[j]
             /\ ds[i] > limit[i]

RECURSIVE DecimalValue(_)
DecimalValue(ds) ==
    IF ds = <<>> THEN 0
    ELSE 10 * DecimalValue(SubSeq(ds, 1, Len(ds) - 1)) + (ds[Len(ds)] - 48)

stoi(str) ==
    LET s0 == SkipSpace(str)
        signed == s0 # <<>> /\ Head(s0) \in {43, 45}
        neg == s0 # <<>> /\ Head(s0) = 45
        run == DigitRun(IF signed THEN Tail(s0) ELSE s0)
        sig == SkipZeros(run)
        limit == IF neg THEN [IntMaxDigits EXCEPT ![Len(IntMaxDigits)] = 56]
                 ELSE IntMaxDigits
    IN  IF run = <<>> THEN [ok |-> FALSE, exc |-> "invalid_argument", v |-> 0]
        ELSE IF NumeralExceeds(sig, limit)
             THEN [ok |-> FALSE, exc |-> "out_of_range", v |-> 0]
             ELSE IF neg /\ sig = limit
                  THEN [ok |-> TRUE, exc |-> "", v |-> (0 - DecimalValue(IntMaxDigits)) - 1]
                  ELSE [ok |-> TRUE, exc |-> "",
                        v |-> IF neg THEN 0 - DecimalValue(sig) ELSE DecimalValue(sig)]

(***************************************************************************)
(* JSON documents (nlohmann::json), as far as the code uses them.  A       *)
(* number is kept as an integer count of 10^-4 units: 51.5072 is 515072.   *)
(***************************************************************************)
Scale == 10^4

JNull == [t |-> "null"]

JNum(x) == [t |-> "number", n |-> x]

JStr(x) == [t |-> "string", s |-> x]

JObj(f) == [t |-> "object", o |-> f]

JArr(q) == [t |-> "array", a |-> q]

\* An exception is a result that is not ok: e.what() as the chain of its
\* parts (what), and the number a part was formatted from (arg, the HTTP
\* status), 0 when there is none.

\* basic_json::empty()
json_empty(j) ==
    CASE j.t = "null" -> TRUE
      [] j.t = "object" -> DOMAIN j.o = {}
      [] j.t = "array" -> j.a = <<>>
      [] OTHER -> FALSE

\* basic_json::contains(key)
json_contains(j, key) == j.t = "object" /\ key \in DOMAIN j.o

\* basic_json::operator[](size_type idx) on a non-const value: null becomes
\* an array, an array is filled up with nulls to reach idx, anything else
\* throws type_error 305.
json_at_index(j, idx) ==
    CASE j.t = "null" -> [ok |-> TRUE, what |-> <<>>, arg |-> 0, val |-> JNull]
      [] j.t = "array" ->
            [ok |-> TRUE, what |-> <<>>, arg |-> 0,
             val |-> IF idx < Len(j.a) THEN j.a[idx + 1] ELSE JNull]
      [] OTHER ->
            [ok |-> FALSE, what |-> <<"type_error.305">>, arg |-> 0,
             val |-> JNull]

\* basic_json::operator[](key) on a non-const value: null becomes an object,
\* a missing key is inserted as null, anything but an object throws
\* type_error 305.
json_at_key(j, key) ==
    CASE j.t = "null" -> [ok |-> TRUE, what |-> <<>>, arg |-> 0, val |-> JNull]
      [] j.t = "object" ->
            [ok |-> TRUE, what |-> <<>>, arg |-> 0,
             val |-> IF key \in DOMAIN j.o THEN j.o[key] ELSE JNull]
      [] OTHER ->
            [ok |-> FALSE, what |-> <<"type_error.305">>, arg |-> 0,
             val |-> JNull]

\* The implicit conversion "double x = j;": type_error 302 unless a number.
json_get_double(j) ==
    IF j.t = "number" THEN [ok |-> TRUE, what |-> <<>>, arg |-> 0, v |-> j.n]
    ELSE [ok |-> FALSE, what |-> <<"type_error.302">>, arg |-> 0, v |-> 0]

\* "double x = j[k1][k2];"
json_double_at(j, k1, k2) ==
    LET a == json_at_key(j, k1)
        b == json_at_key(a.val, k2)
    IN  IF ~a.ok THEN [ok |-> FALSE, what |-> a.what, arg |-> 0, v |-> 0]
        ELSE IF ~b.ok THEN [ok |-> FALSE, what |-> b.what, arg |-> 0, v |-> 0]
        ELSE json_get_double(b.val)

\* j != 200: a value of another type differs from every number.
json_ne_int(j, i) == j.t # "number" \/ j.n # i * Scale

(***************************************************************************)
(* std::to_string(double): printf's "%f", six decimals.                    *)
(***************************************************************************)
RECURSIVE ToDecimal(_)
ToDecimal(n) ==
    IF n < 10 THEN <<48 + n>> ELSE ToDecimal(n \div 10) \o <<48 + (n % 10)>>

to_string(x) ==
    LET m == IF x < 0 THEN 0 - x ELSE x
        f == m % Scale
    IN  (IF x < 0 THEN <<45>> ELSE <<>>)
        \o ToDecimal(m \div Scale)
        \o <<46, 48 + (f \div 1000), 48 + ((f \div 100) % 10),
             48 + ((f \div 10) % 10), 48 + (f % 10), 48, 48>>

(***************************************************************************)
(* API helper methods.  An HTTP exchange is what the provider and the      *)
(* transport did with the request: whether a response came back (conn),   *)
(* its status, whether its body parses, and the document it parses to.     *)
(***************************************************************************)
HttpOk == 200

consume_openweather_api(resp) ==
    IF ~resp.conn
    THEN [ok |-> FALSE,
          what |-> <<"HTTPlib error: Failed to conect to OpenWeather API.">>,
          arg |-> 0, json |-> JNull]
    ELSE IF resp.status # HttpOk
    THEN [ok |-> FALSE, what |-> <<"HTTPlib erorr: GET requst status: ">>,
          arg |-> resp.status, json |-> JNull]
    ELSE IF ~resp.parses
    THEN [ok |-> FALSE,
          what |-> <<"Failed to parse response body to JSON: ", "parse_error">>,
          arg |-> 0, json |-> JNull]
    ELSE [ok |-> TRUE, what |-> <<>>, arg |-> 0, json |-> resp.json]

(***************************************************************************)
(* std::map<std::string, double>: the pairs are kept in the order of       *)
(* std::less<std::string> on the keys, the lexicographic order of their    *)
(* bytes, and iteration visits them in that order.  A map is the sequence  *)
(* of its <<key, value>> pairs in that order.                              *)
(***************************************************************************)
LabelBytes(label) ==
    CASE label = "Temperature (Celcius)" ->
            <<84, 101, 109, 112, 101, 114, 97, 116, 117, 114, 101, 32, 40, 67,
              101, 108, 99, 105, 117, 115, 41>>
      [] label = "Feels Like (Celcius)" ->
            <<70, 101, 101, 108, 115, 32, 76, 105, 107, 101, 32, 40, 67, 101,
              108, 99, 105, 117, 115, 41>>
      [] label = "Pressure (hPa)" ->
            <<80, 114, 101, 115, 115, 117, 114, 101, 32, 40, 104, 80, 97, 41>>
      [] label = "Humidity(%)" ->
            <<72, 117, 109, 105, 100, 105, 116, 121, 40, 37, 41>>
      [] label = "Min Temperature (Celcius)" ->
            <<77, 105, 110, 32, 84, 101, 109, 112, 101, 114, 97, 116, 117, 114,
              101, 32, 40, 67, 101, 108, 99, 105, 117, 115, 41>>
      [] label = "Max Temperature (Celcius)" ->
            <<77, 97, 120, 32, 84, 101, 109, 112, 101, 114, 97, 116, 117, 114,
              101, 32, 40, 67, 101, 108, 99, 105, 117, 115, 41>>
      [] label = "Wind Speed (meters/sec)" ->
            <<87, 105, 110, 100, 32, 83, 112, 101, 101, 100, 32, 40, 109, 101,
              116, 101, 114, 115, 47, 115, 101, 99, 41>>
      [] label = "Cloudiness (%)" ->
            <<67, 108, 111, 117, 100, 105, 110, 101, 115, 115, 32, 40, 37, 41>>
      [] label = "Rain (mm/hr)" ->
            <<82, 97, 105, 110, 32, 40, 109, 109, 47, 104, 114, 41>>
      [] label = "Snow (mm/hr)" ->
            <<83, 110, 111, 119, 32, 40, 109, 109, 47, 104, 114, 41>>

\* std::string::compare(a, b) < 0
string_less(a, b) ==
    \E i \in 1..Len(b) :
        /\ \A j \in 1..(i - 1) : j <= Len(a) /\ a[j] = b[j]
        /\ (i > Len(a) \/ a[i] < b[i])

\* The keys the code uses, and the pairs of them that std::less orders.
Labels ==
    {"Temperature (Celcius)", "Feels Like (Celcius)", "Pressure (hPa)",
     "Humidity(%)", "Min Temperature (Celcius)", "Max Temperature (Celcius)",
     "Wind Speed (meters/sec)", "Cloudiness (%)", "Rain (mm/hr)", "Snow (mm/hr)"}

KeyOrder ==
    {p \in Labels \X Labels : string_less(LabelBytes(p[1]), LabelBytes(p[2]))}

key_less(k1, k2) == <<k1, k2>> \in KeyOrder

\* "weather_data[key] = value;"
RECURSIVE map_assign(_, _, _)
map_assign(m, key, value) ==
    IF m = <<>> THEN << <<key, value>> >>
    ELSE IF Head(m)[1] = key THEN << <<key, value>> >> \o Tail(m)
    ELSE IF key_less(key, Head(m)[1]) THEN << <<key, value>> >> \o m
    ELSE <<Head(m)>> \o map_assign(Tail(m), key, value)

\* "for (const auto& kv_pair : weather_data)": the pairs, in the map's order.
map_iterate(m) == m

\* The labels of the reading, in the order lines 113-152 insert them, each
\* with the place of its value in the document.
WeatherFields ==
    << [label |-> "Temperature (Celcius)", k1 |-> "main", k2 |-> "temp"],
       [label |-> "Feels Like (Celcius)", k1 |-> "main", k2 |-> "feels_like"],
       [label |-> "Pressure (hPa)", k1 |-> "main", k2 |-> "pressure"],
       [label |-> "Humidity(%)", k1 |-> "main", k2 |-> "humidity"],
       [label |-> "Min Temperature (Celcius)", k1 |-> "main", k2 |-> "temp_min"],
       [label |-> "Max Temperature (Celcius)", k1 |-> "main", k2 |-> "temp_max"],
       [label |-> "Wind Speed (meters/sec)", k1 |-> "wind", k2 |-> "speed"],
       [label |-> "Cloudiness (%)", k1 |-> "clouds", k2 |-> "all"],
       [label |-> "Rain (mm/hr)", k1 |-> "rain", k2 |-> "1h"],
       [label |-> "Snow (mm/hr)", k1 |-> "snow", k2 |-> "1h"] >>

Mandatory == 1..8

Optional == 9..10

\* Lines 138-152: the 1h volume of a section the document contains, 0.0 for
\* a section it does not contain.
optional_volume(doc, i) ==
    IF json_contains(doc, WeatherFields[i].k1)
    THEN json_double_at(doc, WeatherFields[i].k1, WeatherFields[i].k2)
    ELSE [ok |-> TRUE, what |-> <<>>, arg |-> 0, v |-> 0]

\* Lines 114-136: one mandatory field.
mandatory_value(doc, i) ==
    json_double_at(doc, WeatherFields[i].k1, WeatherFields[i].k2)

\* Lines 113-152 from the i-th field on: each value is read and assigned
\* to its label in weather_data; the first value that cannot be read throws.
RECURSIVE populate(_, _, _)
populate(doc, i, weather_data) ==
    IF i > Len(WeatherFields)
    THEN [ok |-> TRUE, what |-> <<>>, arg |-> 0, data |-> weather_data]
    ELSE LET v == IF i \in Mandatory THEN mandatory_value(doc, i)
                  ELSE optional_volume(doc, i)
         IN  IF ~v.ok THEN [ok |-> FALSE, what |-> v.what, arg |-> 0, data |-> <<>>]
             ELSE populate(doc, i + 1,
                           map_assign(weather_data, WeatherFields[i].label, v.v))

\* The body of the try block of get_weather_from_lat_lon, lines 102-153.
weather_try(resp) ==
    LET api == consume_openweather_api(resp)
        doc == api.json
        cod == json_at_key(doc, "cod")
        msg == json_at_key(doc, "message")
    IN  IF ~api.ok THEN [ok |-> FALSE, what |-> api.what, arg |-> api.arg, data |-> <<>>]
        ELSE IF json_empty(doc)
        THEN [ok |-> FALSE, what |-> <<"API returned empty result.">>, arg |-> 0, data |-> <<>>]
        ELSE IF ~cod.ok
        THEN [ok |-> FALSE, what |-> cod.what, arg |-> 0, data |-> <<>>]
        ELSE IF json_ne_int(cod.val, HttpOk)
        THEN IF msg.val.t = "string"
             THEN [ok |-> FALSE, what |-> <<"API returned error: ", msg.val.s>>,
                   arg |-> 0, data |-> <<>>]
             ELSE [ok |-> FALSE, what |-> <<"type_error.302">>, arg |-> 0, data |-> <<>>]
        ELSE populate(doc, 1, <<>>)

\* get_weather_from_lat_lon: the catch clause rethrows with its context.
\* lat and lon go into the request only; the exchange is the provider's.
get_weather_from_lat_lon(lat, lon, resp) ==
    LET r == weather_try(resp)
    IN  IF r.ok THEN r
        ELSE [r EXCEPT !.what = <<"Error fetching weather data: ">> \o r.what]

\* lacks_lat_or_lon with && for ||.
lacks_lat_and_lon(j) == ~json_contains(j, "lat") /\ ~json_contains(j, "lon")

\* Line 174.
lacks_lat_or_lon(j) == ~json_contains(j, "lat") \/ ~json_contains(j, "lon")

\* The body of the try block of get_city_lat_lon, lines 168-183.  query is
\* what the request carries after "q=".
geo_try(city_name, ub, resp) ==
    LET api == consume_openweather_api(resp)
        at0 == json_at_index(api.json, 0)
        geo_res_json == at0.val
        lat_raw == json_get_double(json_at_key(geo_res_json, "lat").val)
        lon_raw == json_get_double(json_at_key(geo_res_json, "lon").val)
        failed(what, arg) ==
            [ok |-> FALSE, what |-> what, arg |-> arg, lat |-> <<>>, lon |-> <<>>,
             query |-> sanitize_and_encode(city_name, ub)]
    IN  IF ~api.ok THEN failed(api.what, api.arg)
        ELSE IF ~at0.ok THEN failed(at0.what, 0)
        ELSE IF json_empty(geo_res_json)
        THEN failed(<<"API returned empty result.">>, 0)
        ELSE IF lacks_lat_or_lon(geo_res_json)
        THEN failed(<<"API missing lat or lon information.">>, 0)
        ELSE IF ~lat_raw.ok THEN failed(lat_raw.what, 0)
        ELSE IF ~lon_raw.ok THEN failed(lon_raw.what, 0)
        ELSE [ok |-> TRUE, what |-> <<>>, arg |-> 0,
              lat |-> to_string(lat_raw.v), lon |-> to_string(lon_raw.v),
              query |-> sanitize_and_encode(city_name, ub)]

\* get_city_lat_lon: the catch clause rethrows with its context.
get_city_lat_lon(city_name, ub, resp) ==
    LET r == geo_try(city_name, ub, resp)
    IN  IF r.ok THEN r
        ELSE [r EXCEPT !.what = <<"Error fetching geocoding data: ">> \o r.what]

(***************************************************************************)
(* What the provider can answer.                                           *)
(***************************************************************************)
NoConn == [conn |-> FALSE, status |-> 0, parses |-> FALSE, json |-> JNull]

BadStatus(code) == [conn |-> TRUE, status |-> code, parses |-> FALSE, json |-> JNull]

BadBody == [conn |-> TRUE, status |-> HttpOk, parses |-> FALSE, json |-> JNull]

Body(j) == [conn |-> TRUE, status |-> HttpOk, parses |-> TRUE, json |-> j]

Failures == {NoConn, BadStatus(404), BadBody}

Absent == [t |-> "absent"]

\* The object holding the members of c that are not Absent.
ObjectOf(c) == JObj([k \in {k \in DOMAIN c : c[k].t # "absent"} |-> c[k]])

\* Geocoding: 51.5072, -33.8688 and a text where a number belongs; -0.1276.
GeoLat == {Absent, JNum(515072), JNum(0 - 338688), JStr("51.5072")}

GeoLon == {Absent, JNum(0 - 1276), JStr("-0.1276")}

GeoName == {Absent, JStr("London")}

GeoFirst ==
    {ObjectOf(c) : c \in [lat : GeoLat, lon : GeoLon, name : GeoName]}
    \cup {JNull, JNum(Scale)}

GeoBodies ==
    {JArr(<<>>), JNull, ObjectOf([cod |-> JNum(401 * Scale)])}
    \cup {JArr(<<f>>) : f \in GeoFirst}

GeoExchanges == Failures \cup {Body(j) : j \in GeoBodies}

\* Weather: the "main" section whole, with a member missing, with a text
\* where a number belongs, or missing.
FullMain ==
    [temp |-> JNum(153000), feels_like |-> JNum(141000),
     pressure |-> JNum(1012 * Scale), humidity |-> JNum(70 * Scale),
     temp_min |-> JNum(130000), temp_max |-> JNum(170000)]

WxMain ==
    {ObjectOf(FullMain), ObjectOf([FullMain EXCEPT !.temp = Absent]),
     ObjectOf([FullMain EXCEPT !.temp_max = Absent]),
     ObjectOf([FullMain EXCEPT !.pressure = JStr("1012")]), Absent}

WxCod == {Absent, JNum(HttpOk * Scale), JNum(404 * Scale), JStr("404")}

WxMessage == {Absent, JStr("city not found")}

WxWind == {Absent, ObjectOf([speed |-> JNum(41000)])}

WxClouds == {Absent, ObjectOf([all |-> JNum(80 * Scale)])}

\* A section with its 1h volume, with a 3h volume only, or missing.
WxRain ==
    {Absent, JObj([k \in {"3h"} |-> JNum(72000)]),
     JObj([k \in {"1h"} |-> JNum(25000)])}

WxSnow ==
    {Absent, JObj([k \in {"3h"} |-> JNum(9000)]),
     JObj([k \in {"1h"} |-> JNum(3000)])}

WxBodies ==
    {ObjectOf(c) : c \in [cod : WxCod, message : WxMessage, main : WxMain,
                          wind : WxWind, clouds : WxClouds,
                          rain : WxRain, snow : WxSnow]}
    \cup {JNull, JArr(<<>>)}

WxExchanges == Failures \cup {Body(j) : j \in WxBodies}

\* The exchanges the menu loop is run against: one of each outcome.
GoodDoc(rain, snow) ==
    ObjectOf([cod |-> JNum(HttpOk * Scale), message |-> Absent,
              main |-> ObjectOf(FullMain),
              wind |-> ObjectOf([speed |-> JNum(41000)]),
              clouds |-> ObjectOf([all |-> JNum(80 * Scale)]),
              rain |-> rain, snow |-> snow])

MenuWxExchanges ==
    {Body(ObjectOf([cod |-> JStr("404"), message |-> JStr("city not found")])),
     Body(GoodDoc(Absent, Absent)),
     Body(GoodDoc(JObj([k \in {"1h"} |-> JNum(25000)]), Absent))}

(***************************************************************************)
(* Display methods and the menu loop.                                      *)
(***************************************************************************)
MaxFavorites == 3

NoErr == [what |-> <<>>, arg |-> 0]

Caught(r) == [what |-> r.what, arg |-> r.arg]

\* city_search, lines 202-219.
city_search(city_name, ub, geo, wx) ==
    LET g == get_city_lat_lon(city_name, ub, geo)
        w == get_weather_from_lat_lon(g.lat, g.lon, wx)
    IN  IF city_name = Cancel THEN [msg |-> "", err |-> NoErr, shown |-> <<>>]
        ELSE IF ~g.ok THEN [msg |-> "Error: ", err |-> Caught(g), shown |-> <<>>]
        ELSE IF ~w.ok THEN [msg |-> "Error: ", err |-> Caught(w), shown |-> <<>>]
        ELSE [msg |-> "Weather Data for ", err |-> NoErr, shown |-> map_iterate(w.data)]

\* index_in_range with the lower bound one too low.
index_in_range_from_zero(index, favs) == index >= 0 /\ index <= Len(favs)

\* Line 252.
index_in_range(index, favs) == index > 0 /\ index <= Len(favs)

\* erase_at without the "- 1" of line 253.
erase_at_next(favs, index) ==
    IF index + 1 <= Len(favs)
    THEN SubSeq(favs, 1, index) \o SubSeq(favs, index + 2, Len(favs))
    ELSE SubSeq(favs, 1, Len(favs) - 1)

\* Line 253: favorites.erase(favorites.begin() + index - 1).
erase_at(favs, index) ==
    SubSeq(favs, 1, index - 1) \o SubSeq(favs, index + 1, Len(favs))

\* delete_favorite from its prompt on, lines 241-260.  exc names an
\* exception that leaves the function.
delete_favorite(favs, line, ub) ==
    LET r == stoi(line)
    IN  IF line = Cancel THEN [favs |-> favs, msg |-> "", exc |-> ""]
        ELSE IF is_numeric(line, ub)
        THEN IF ~r.ok THEN [favs |-> favs, msg |-> "", exc |-> r.exc]
             ELSE IF index_in_range(r.v, favs)
             THEN [favs |-> erase_at(favs, r.v),
                   msg |-> "City successfully deleted.", exc |-> ""]
             ELSE [favs |-> favs,
                   msg |-> "Number out of bounds. Please try again.", exc |-> ""]
        ELSE [favs |-> favs,
              msg |-> "Invalid input. Please enter a valid number.", exc |-> ""]

\* has_room with <= for <.
has_room_one_more(favs) == Len(favs) <= MaxFavorites

\* Line 285.
has_room(favs) == Len(favs) < MaxFavorites

\* new_city with the coordinates taken the wrong way round.
new_city_swapped(city_name, g) == [name |-> city_name, lat |-> g.lon, lon |-> g.lat]

\* Lines 290-293.
new_city(city_name, g) == [name |-> city_name, lat |-> g.lat, lon |-> g.lon]

\* add_favorite from its prompt on, lines 280-303.
add_favorite(favs, city_name, ub, geo) ==
    LET g == get_city_lat_lon(city_name, ub, geo)
    IN  IF city_name = Cancel THEN [favs |-> favs, msg |-> "", err |-> NoErr]
        ELSE IF has_room(favs)
        THEN IF g.ok
             THEN [favs |-> Append(favs, new_city(city_name, g)),
                   msg |-> "Favorite successfully added: ", err |-> NoErr]
             ELSE [favs |-> favs, msg |-> "Error adding favorite: ", err |-> Caught(g)]
        ELSE [favs |-> favs, msg |-> "Cannot add city: Favorites list is full.",
              err |-> NoErr]

\* display_favorites, lines 314-326: wx[i] is the exchange the request for
\* the i-th favorite met.  The lines printed, and the last error printed.
RECURSIVE display_favorites(_, _, _)
display_favorites(favs, wx, i) ==
    IF i > Len(favs) THEN [shown |-> <<>>, err |-> NoErr]
    ELSE LET w == get_weather_from_lat_lon(favs[i].lat, favs[i].lon, wx[i])
             rest == display_favorites(favs, wx, i + 1)
         IN  [shown |-> (IF w.ok THEN map_iterate(w.data) ELSE <<>>) \o rest.shown,
              err |-> IF rest.err # NoErr THEN rest.err
                      ELSE IF w.ok THEN NoErr ELSE Caught(w)]

\* The lines main_screen compares its input with.
Menu == [search |-> <<49>>, add |-> <<50>>, delete |-> <<51>>,
         view |-> <<52>>, exit |-> <<53>>]

\* Other lines a user may type at the menu: "6", "", " 1", "11".
OtherMenuLines == {<<54>>, <<>>, <<32, 49>>, <<49, 49>>}

\* City names typed at a prompt: "A", " é" (Latin-1), and the sentinel.
CityNames == {<<65>>, <<32, 233>>, Cancel}

\* Lines typed at the delete prompt of the menu loop: "0".."4", "02", "a",
\* "é", "", the sentinel, and INT_MAX + 1.
MenuDeleteLines ==
    {<<48>>, <<49>>, <<50>>, <<51>>, <<52>>, <<48, 50>>, <<97>>, <<233>>, <<>>,
     Cancel, <<50, 49, 52, 55, 52, 56, 51, 54, 52, 56>>}

\* The geocoding exchanges the menu loop is run against: each way to fail
\* and two places found.
MenuGeoExchanges ==
    Failures \cup
    {Body(JArr(<<>>)), Body(JArr(<<ObjectOf([lat |-> JNum(515072)])>>)),
     Body(JArr(<<ObjectOf([lat |-> JNum(515072), lon |-> JNum(0 - 1276)])>>)),
     Body(JArr(<<ObjectOf([lat |-> JNum(0 - 338688), lon |-> JNum(1512093)])>>))}

\* The answer of a <cctype> call matters only for a text that makes it
\* leave its domain.
UbFor(text) ==
    IF \E i \in 1..Len(text) : text[i] \in HighBytes THEN UbChoices
    ELSE {[c \in HighBytes |-> FALSE]}

Init ==
    /\ favorites = <<>>
    /\ exit_flag = FALSE
    /\ pc = "menu"
    /\ choice = <<>>
    /\ lastIn = <<>>
    /\ lastMsg = ""
    /\ lastErr = NoErr
    /\ prevFav = <<>>
    /\ shown = <<>>
    /\ geoResp = <<>>
    /\ fnIn = <<>>
    /\ fnOut = <<>>
    /\ fnPc = "ready"

FnVars == <<fnIn, fnOut, fnPc>>

\* main_screen with choice "1".  The weather request is made only once
\* the geocoding request has succeeded.
CitySearch ==
    /\ pc = "menu"
    /\ choice' = Menu.search
    /\ \E city_name \in CityNames, geo \in MenuGeoExchanges :
          \E ub \in UbFor(city_name) :
          \E wx \in IF city_name # Cancel /\ get_city_lat_lon(city_name, ub, geo).ok
                    THEN MenuWxExchanges ELSE {NoConn} :
             \E r \in {city_search(city_name, ub, geo, wx)} :
                 /\ lastIn' = city_name
                 /\ lastMsg' = r.msg
                 /\ lastErr' = r.err
                 /\ shown' = r.shown
    /\ prevFav' = favorites
    /\ geoResp' = <<>>
    /\ UNCHANGED <<favorites, exit_flag, pc, FnVars>>

\* main_screen with choice "2".
AddFavorite ==
    /\ pc = "menu"
    /\ choice' = Menu.add
    /\ \E city_name \in CityNames, geo \in MenuGeoExchanges :
       \E ub \in UbFor(city_name) :
          \E r \in {add_favorite(favorites, city_name, ub, geo)} :
              /\ lastIn' = city_name
              /\ favorites' = r.favs
              /\ lastMsg' = r.msg
              /\ lastErr' = r.err
              /\ geoResp' = IF city_name # Cancel /\ has_room(favorites)
                            THEN <<geo>> ELSE <<>>
    /\ prevFav' = favorites
    /\ shown' = <<>>
    /\ UNCHANGED <<exit_flag, pc, FnVars>>

\* main_screen with choice "3", the line at the delete prompt drawn from
\* lines.  An exception that leaves delete_favorite meets no handler up to
\* main: std::terminate ends the process.
DeleteStep(lines) ==
    /\ pc = "menu"
    /\ choice' = Menu.delete
    /\ IF favorites = <<>>
       THEN /\ lastIn' = <<>>
            /\ lastMsg' = "No favorite cities to delete"
            /\ lastErr' = NoErr
            /\ UNCHANGED <<favorites, pc>>
       ELSE \E line \in lines :
            \E ub \in UbFor(line) :
               \E r \in {delete_favorite(favorites, line, ub)} :
                   /\ lastIn' = line
                   /\ favorites' = r.favs
                   /\ lastMsg' = r.msg
                   /\ lastErr' = [what |-> IF r.exc = "" THEN <<>> ELSE <<r.exc>>,
                                  arg |-> 0]
                   /\ pc' = IF r.exc = "" THEN "menu" ELSE "terminated"
    /\ prevFav' = favorites
    /\ shown' = <<>>
    /\ geoResp' = <<>>
    /\ UNCHANGED exit_flag

DeleteFavorite == DeleteStep(MenuDeleteLines) /\ UNCHANGED FnVars

\* main_screen with choice "4".
DisplayFavorites ==
    /\ pc = "menu"
    /\ choice' = Menu.view
    /\ IF favorites = <<>>
       THEN /\ lastMsg' = "No favorite cities to display."
            /\ lastErr' = NoErr
            /\ shown' = <<>>
       ELSE \E wx \in [1..Len(favorites) -> MenuWxExchanges] :
               \E r \in {display_favorites(favorites, wx, 1)} :
                   /\ lastMsg' = "City Name: "
                   /\ lastErr' = r.err
                   /\ shown' = r.shown
    /\ lastIn' = <<>>
    /\ prevFav' = favorites
    /\ geoResp' = <<>>
    /\ UNCHANGED <<favorites, exit_flag, pc, FnVars>>

\* main_screen with choice "5", and main's loop ending on exit_flag.
ExitProgram ==
    /\ pc = "menu"
    /\ choice' = Menu.exit
    /\ exit_flag' = TRUE
    /\ pc' = "done"
    /\ lastIn' = <<>>
    /\ lastMsg' = "Exiting program."
    /\ lastErr' = NoErr
    /\ prevFav' = favorites
    /\ shown' = <<>>
    /\ geoResp' = <<>>
    /\ UNCHANGED <<favorites, FnVars>>

\* main_screen with any other line.
InvalidChoice ==
    /\ pc = "menu"
    /\ \E line \in OtherMenuLines : choice' = line
    /\ lastIn' = <<>>
    /\ lastMsg' = "Invalid choice, please try again."
    /\ lastErr' = NoErr
    /\ prevFav' = favorites
    /\ shown' = <<>>
    /\ geoResp' = <<>>
    /\ UNCHANGED <<favorites, exit_flag, pc, FnVars>>

Next ==
    \/ CitySearch
    \/ AddFavorite
    \/ DeleteFavorite
    \/ DisplayFavorites
    \/ ExitProgram
    \/ InvalidChoice

Spec == Init /\ [][Next]_vars

(***************************************************************************)
(* The favorites store's deletion on its own: delete_favorite run once on  *)
(* every list the menu loop can build, with every line of DeleteLines.     *)
(***************************************************************************)
\* Lines typed at the delete prompt: every line of at most MaxChoiceLen
\* bytes over '0'..'4', 'a', 'é', the sentinel, and three ten-digit
\* numerals: INT_MAX, INT_MAX + 1 and 0000000002.
ChoiceAlphabet == {48, 49, 50, 51, 52, 97, 233}

LongChoices ==
    {IntMaxDigits, [IntMaxDigits EXCEPT ![Len(IntMaxDigits)] = 56],
     <<48, 48, 48, 48, 48, 48, 48, 48, 48, 50>>}

DeleteLines == SeqsUpTo(ChoiceAlphabet, MaxChoiceLen) \cup LongChoices \cup {Cancel}

\* The entries add_favorite can append, and the lists it can build.
Cities ==
    {new_city(n, get_city_lat_lon(n, [c \in HighBytes |-> FALSE], geo)) :
        n \in CityNames \ {Cancel},
        geo \in {g \in MenuGeoExchanges :
                    get_city_lat_lon(<<>>, [c \in HighBytes |-> FALSE], g).ok}}

FavoriteLists == SeqsUpTo(Cities, MaxFavorites)

InitDelete ==
    /\ favorites \in FavoriteLists
    /\ exit_flag = FALSE
    /\ pc = "menu"
    /\ choice = <<>>
    /\ lastIn = <<>>
    /\ lastMsg = ""
    /\ lastErr = NoErr
    /\ prevFav = <<>>
    /\ shown = <<>>
    /\ geoResp = <<>>
    /\ fnIn = <<>>
    /\ fnOut = <<>>
    /\ fnPc = "ready"

DeleteOnce ==
    /\ fnPc = "ready"
    /\ DeleteStep(DeleteLines)
    /\ fnPc' = "delete_favorite"
    /\ UNCHANGED <<fnIn, fnOut>>

NextDelete == DeleteOnce

SpecDelete == InitDelete /\ [][NextDelete]_vars

(***************************************************************************)
(* The sanitizer on its own: url_encode applied to every text over         *)
(* EncAlphabet of length at most MaxLen.                                   *)
(***************************************************************************)
\* tab, space, '%', '-', '1', 'A', 'a', and "é" in Latin-1 (233).
EncAlphabet == {9, 32, 37, 45, 49, 65, 97} \cup HighBytes

MainIdle ==
    /\ favorites = <<>>
    /\ exit_flag = FALSE
    /\ pc = "menu"
    /\ choice = <<>>
    /\ lastIn = <<>>
    /\ lastMsg = ""
    /\ lastErr = NoErr
    /\ prevFav = <<>>
    /\ shown = <<>>
    /\ geoResp = <<>>

MainVars == <<favorites, exit_flag, pc, choice, lastIn, lastMsg, lastErr,
              prevFav, shown, geoResp>>

InitEncode ==
    /\ MainIdle
    /\ fnIn \in SeqsUpTo(EncAlphabet, MaxLen)
    /\ fnOut = <<>>
    /\ fnPc = "ready"

CallUrlEncode ==
    /\ fnPc = "ready"
    /\ \E ub \in UbChoices : fnOut' = url_encode(fnIn, ub)
    /\ fnPc' = "url_encode"
    /\ UNCHANGED <<fnIn, MainVars>>

NextEncode == CallUrlEncode

SpecEncode == InitEncode /\ [][NextEncode]_vars

(***************************************************************************)
(* The geocode resolver on its own: get_city_lat_lon applied to every      *)
(* exchange of GeoExchanges.                                               *)
(***************************************************************************)
GeoNames == {<<65>>, <<32, 233>>, <<>>}

InitGeo ==
    /\ MainIdle
    /\ fnIn \in [name : GeoNames, resp : GeoExchanges]
    /\ fnOut = <<>>
    /\ fnPc = "ready"

CallGetCityLatLon ==
    /\ fnPc = "ready"
    /\ \E ub \in UbChoices : fnOut' = get_city_lat_lon(fnIn.name, ub, fnIn.resp)
    /\ fnPc' = "get_city_lat_lon"
    /\ UNCHANGED <<fnIn, MainVars>>

NextGeo == CallGetCityLatLon

SpecGeo == InitGeo /\ [][NextGeo]_vars

(***************************************************************************)
(* The weather fetcher on its own: get_weather_from_lat_lon applied to     *)
(* every exchange of WxExchanges.                                          *)
(***************************************************************************)
InitWeather ==
    /\ MainIdle
    /\ fnIn \in [lat : {to_string(515072)}, lon : {to_string(0 - 1276)},
                 resp : WxExchanges]
    /\ fnOut = <<>>
    /\ fnPc = "ready"

CallGetWeather ==
    /\ fnPc = "ready"
    /\ fnOut' = get_weather_from_lat_lon(fnIn.lat, fnIn.lon, fnIn.resp)
    /\ fnPc' = "get_weather_from_lat_lon"
    /\ UNCHANGED <<fnIn, MainVars>>

NextWeather == CallGetWeather

SpecWeather == InitWeather /\ [][NextWeather]_vars


(***************************************************************************)
(* Properties.  What a claim says about an exchange is written here on the *)
(* exchange itself, not with the operators that model the code.            *)
(***************************************************************************)
Delivered(resp) == resp.conn /\ resp.status = 200 /\ resp.parses

HasMember(j, key) == j.t = "object" /\ key \in DOMAIN j.o

HasNumber(j, key) == HasMember(j, key) /\ j.o[key].t = "number"

HexValue(c) == IF c \in 48..57 THEN c - 48 ELSE c - 55

UpperHex == (48..57) \cup (65..70)

\* Percent-decoding: %XX is the byte XX, any other byte is itself.
RECURSIVE percent_decode(_)
percent_decode(s) ==
    IF s = <<>> THEN <<>>
    ELSE IF Head(s) = 37 /\ Len(s) >= 3 /\ s[2] \in UpperHex /\ s[3] \in UpperHex
    THEN <<16 * HexValue(s[2]) + HexValue(s[3])>> \o percent_decode(SubSeq(s, 4, Len(s)))
    ELSE <<Head(s)>> \o percent_decode(Tail(s))

UrlSafe == (48..57) \cup (65..90) \cup (97..122) \cup {45, 95, 46, 126}

EncodedWell(s) ==
    /\ \A i \in 1..Len(s) : s[i] \in UrlSafe \cup {37}
    /\ \A i \in 1..Len(s) :
          s[i] = 37 => i + 2 <= Len(s) /\ s[i + 1] \in UpperHex /\ s[i + 2] \in UpperHex

\* C9: url_encode's output holds only A-Z a-z 0-9 - _ . ~ and %, every % is
\* followed by two uppercase hex digits, and percent-decoding it gives back
\* the input, for every input byte sequence.
C9_EncodeSafeAndRoundTrips ==
    fnPc = "url_encode" =>
        EncodedWell(fnOut) /\ percent_decode(fnOut) = fnIn

\* The part of C9 the code meets: inputs whose bytes are all below 128,
\* where isalnum is called inside its domain.
C9_EncodeAsciiRoundTrips ==
    fnPc = "url_encode" /\ (\A i \in 1..Len(fnIn) : fnIn[i] < 128) =>
        EncodedWell(fnOut) /\ percent_decode(fnOut) = fnIn

C9_AsciiReached ==
    fnPc = "url_encode" /\ fnIn = <<32, 65, 37>> /\ fnOut = <<37, 50, 48, 65, 37, 50, 53>>

GeoContext == "Error fetching geocoding data: "

GeoDone == fnPc = "get_city_lat_lon"

GeoArray == Delivered(fnIn.resp) /\ fnIn.resp.json.t = "array"

GeoEmptySet == GeoArray /\ fnIn.resp.json.a = <<>>

GeoHasFirst == GeoArray /\ Len(fnIn.resp.json.a) >= 1

GeoFirstResult == fnIn.resp.json.a[1]

GeoFirstComplete ==
    GeoHasFirst /\ HasMember(GeoFirstResult, "lat") /\ HasMember(GeoFirstResult, "lon")

\* A first result that is null, {} or [].
GeoFirstIsEmpty ==
    /\ GeoHasFirst
    /\ \/ GeoFirstResult.t = "null"
       \/ GeoFirstResult.t = "object" /\ DOMAIN GeoFirstResult.o = {}
       \/ GeoFirstResult.t = "array" /\ GeoFirstResult.a = <<>>

GeoFailsWith(message) ==
    ~fnOut.ok /\ fnOut.what = <<GeoContext, message>> /\ fnOut.lat = <<>> /\ fnOut.lon = <<>>

\* C6 as claimed: coordinates only from a first result holding lat and lon;
\* an empty result array fails with "API returned empty result."; a first
\* result lacking lat or lon fails with "API missing lat or lon
\* information."; a failure returns no coordinates.
C6_GeoErrorsAsClaimed ==
    GeoDone =>
        /\ fnOut.ok => GeoFirstComplete
        /\ GeoEmptySet => GeoFailsWith("API returned empty result.")
        /\ GeoHasFirst /\ ~GeoFirstComplete =>
              GeoFailsWith("API missing lat or lon information.")
        /\ ~fnOut.ok => fnOut.lat = <<>> /\ fnOut.lon = <<>>

\* C6 amended: as claimed, except that a first result that is itself empty
\* (null, {} or []) fails with "API returned empty result." like an empty
\* array, and only a non-empty first result lacking lat or lon fails with
\* "API missing lat or lon information.".
C6_GeoErrors ==
    GeoDone =>
        /\ fnOut.ok => GeoFirstComplete
        /\ GeoEmptySet \/ GeoFirstIsEmpty => GeoFailsWith("API returned empty result.")
        /\ GeoHasFirst /\ ~GeoFirstIsEmpty /\ ~GeoFirstComplete =>
              GeoFailsWith("API missing lat or lon information.")
        /\ ~fnOut.ok => fnOut.lat = <<>> /\ fnOut.lon = <<>>

C6_Witness ==
    /\ GeoDone
    /\ GeoHasFirst /\ ~GeoFirstIsEmpty /\ ~HasMember(GeoFirstResult, "lon")
    /\ HasMember(GeoFirstResult, "lat")
    /\ GeoFailsWith("API missing lat or lon information.")

WxDone == fnPc = "get_weather_from_lat_lon"

WxDoc == fnIn.resp.json

\* cod == 200 and the eight mandatory fields present as numbers.
WxComplete ==
    /\ Delivered(fnIn.resp)
    /\ HasNumber(WxDoc, "cod") /\ WxDoc.o["cod"].n = 200 * Scale
    /\ \A k \in {"temp", "feels_like", "pressure", "humidity", "temp_min", "temp_max"} :
          HasMember(WxDoc, "main") /\ HasNumber(WxDoc.o["main"], k)
    /\ HasMember(WxDoc, "wind") /\ HasNumber(WxDoc.o["wind"], "speed")
    /\ HasMember(WxDoc, "clouds") /\ HasNumber(WxDoc.o["clouds"], "all")

WxHas1h(section) == HasMember(WxDoc, section) /\ HasNumber(WxDoc.o[section], "1h")

\* The value a reading holds for a label.
ValueOf(data, label) ==
    LET i == CHOOSE i \in 1..Len(data) : data[i][1] = label IN data[i][2]

Holds(data, label) == \E i \in 1..Len(data) : data[i][1] = label

WxVolumeRight(section, label) ==
    /\ Holds(fnOut.data, label)
    /\ ~HasMember(WxDoc, section) => ValueOf(fnOut.data, label) = 0
    /\ WxHas1h(section) => ValueOf(fnOut.data, label) = WxDoc.o[section].o["1h"].n

\* C8: on a document with cod == 200 and the eight mandatory fields the
\* fetch succeeds; Rain is 0.0 without a rain section, Snow is 0.0 without
\* a snow section, each whatever the other, and each is its section's 1h
\* value when the section holds one.
C8_OptionalDefaultsAsClaimed ==
    WxDone /\ WxComplete =>
        /\ fnOut.ok
        /\ WxVolumeRight("rain", "Rain (mm/hr)")
        /\ WxVolumeRight("snow", "Snow (mm/hr)")

\* The part of C8 the code meets: the same, on the documents in which each
\* of the rain and snow sections is either missing or holds a numeric 1h.
C8_OptionalDefaults ==
    /\ WxDone /\ WxComplete
    /\ ~HasMember(WxDoc, "rain") \/ WxHas1h("rain")
    /\ ~HasMember(WxDoc, "snow") \/ WxHas1h("snow")
    => /\ fnOut.ok
       /\ WxVolumeRight("rain", "Rain (mm/hr)")
       /\ WxVolumeRight("snow", "Snow (mm/hr)")

C8_DefaultsReached ==
    /\ WxDone /\ WxComplete
    /\ WxHas1h("rain") /\ ~HasMember(WxDoc, "snow")
    /\ fnOut.ok
    /\ ValueOf(fnOut.data, "Rain (mm/hr)") = 25000
    /\ ValueOf(fnOut.data, "Snow (mm/hr)") = 0

\* C1: after any sequence of menu actions the favorites list holds between
\* 0 and 3 entries.
C1_FavoritesBounded == Len(favorites) >= 0 /\ Len(favorites) <= 3

C1_Witness ==
    /\ Len(favorites) = 3
    /\ choice = Menu.add /\ lastIn # Cancel /\ Len(prevFav) = 3

FullMessage == "Cannot add city: Favorites list is full."

\* C2: add-favorite on a list of 3 entries, with any name but the sentinel,
\* prints that the list is full and leaves the list as it was.
C2_FullListRejectsAdd ==
    choice = Menu.add /\ Len(prevFav) = 3 /\ lastIn # Cancel =>
        lastMsg = FullMessage /\ favorites = prevFav

C2_Witness ==
    /\ choice = Menu.add /\ Len(prevFav) = 3 /\ lastIn = <<32, 233>>
    /\ lastMsg = FullMessage /\ favorites = prevFav

\* A line made of digits only, with at least one.
IsNumeral(line) == Len(line) >= 1 /\ \A i \in 1..Len(line) : line[i] \in 48..57

\* The numeral's value is k, for k in 0..9: zeros, then the digit k.
NumeralIs(line, k) ==
    /\ IsNumeral(line)
    /\ line[Len(line)] = 48 + k
    /\ \A i \in 1..(Len(line) - 1) : line[i] = 48

DeleteDone == fnPc = "delete_favorite" /\ choice = Menu.delete /\ prevFav # <<>>

\* C3: on a list of n >= 1 entries, a numeral of value k in 1..n removes
\* the k-th entry: n - 1 entries remain, those before k and those after k,
\* in their order.
C3_DeleteRemovesKth ==
    \A k \in 1..3 :
        DeleteDone /\ k <= Len(prevFav) /\ NumeralIs(lastIn, k) =>
            /\ pc = "menu"
            /\ Len(favorites) = Len(prevFav) - 1
            /\ \A i \in 1..(k - 1) : favorites[i] = prevFav[i]
            /\ \A i \in k..Len(favorites) : favorites[i] = prevFav[i + 1]

C3_Witness ==
    /\ DeleteDone /\ Len(prevFav) = 3 /\ lastIn = <<50>>
    /\ prevFav[1] # prevFav[2] /\ prevFav[2] # prevFav[3] /\ prevFav[1] # prevFav[3]
    /\ favorites = <<prevFav[1], prevFav[3]>>

\* C4: on a list of n >= 1 entries, a line that is no numeral of value in
\* 1..n (the sentinel aside) leaves the list as it was and is answered:
\* "Invalid input" when it is not made of digits only, "Number out of
\* bounds" when it is a numeral of value 0 or above n.
C4_BadDeleteInputRejected ==
    /\ DeleteDone /\ lastIn # Cancel
    /\ ~(\E k \in 1..Len(prevFav) : NumeralIs(lastIn, k))
    => /\ favorites = prevFav
       /\ pc = "menu"
       /\ ~IsNumeral(lastIn) =>
             lastMsg = "Invalid input. Please enter a valid number."
       /\ IsNumeral(lastIn) =>
             lastMsg = "Number out of bounds. Please try again."

\* C5: no error ends the process: after every action main is back at the
\* menu, and it leaves the loop only on choice "5".
C5_NoErrorIsFatal ==
    /\ pc \in {"menu", "done"}
    /\ pc = "done" => choice = Menu.exit

\* The labels in the order the code assigns them.
InsertionOrder == [i \in 1..Len(WeatherFields) |-> WeatherFields[i].label]

\* C7: a successful search prints the reading in the order the labels were
\* inserted: Temperature, Feels Like, Pressure, Humidity, Min Temperature,
\* Max Temperature, Wind Speed, Cloudiness, Rain, Snow.
C7_DisplayInInsertionOrder ==
    choice = Menu.search /\ lastMsg = "Weather Data for " =>
        [i \in 1..Len(shown) |-> shown[i][1]] = InsertionOrder

\* Whether a geocoding exchange resolves: delivered, a non-empty array, its
\* first result holding lat and lon as numbers.
GeoResolves(resp) ==
    /\ Delivered(resp)
    /\ resp.json.t = "array" /\ Len(resp.json.a) >= 1
    /\ HasNumber(resp.json.a[1], "lat") /\ HasNumber(resp.json.a[1], "lon")

\* C10: add-favorite on a list of fewer than 3 entries leaves the list as
\* it was when the geocoding fails, and otherwise appends one entry: the
\* name as typed, with the latitude and longitude resolved.
C10_AddAllOrNothing ==
    choice = Menu.add /\ Len(prevFav) < 3 /\ lastIn # Cancel =>
        /\ Len(geoResp) = 1
        /\ ~GeoResolves(geoResp[1]) => favorites = prevFav
        /\ GeoResolves(geoResp[1]) =>
              favorites = Append(prevFav,
                                 [name |-> lastIn,
                                  lat |-> to_string(geoResp[1].json.a[1].o["lat"].n),
                                  lon |-> to_string(geoResp[1].json.a[1].o["lon"].n)])

\* " é" added after another entry, at 51.5072, -0.1276.
C10_Witness ==
    /\ choice = Menu.add /\ Len(prevFav) = 1 /\ lastIn = <<32, 233>>
    /\ favorites = Append(prevFav,
                          [name |-> <<32, 233>>,
                           lat |-> <<53, 49, 46, 53, 48, 55, 50, 48, 48>>,
                           lon |-> <<45, 48, 46, 49, 50, 55, 54, 48, 48>>])

=============================================================================
